---- MODULE Spec2Model ----
(***************************************************************************)
(* Model of packages/@expo/server/src/index.ts: createRequestHandler, the  *)
(* request handler it returns, and updateRequestWithConfig.                *)
(*                                                                         *)
(* One createRequestHandler closure is modelled.  Its shared state is the  *)
(* variable routesManifest (index.ts:89).  Dispatch calls (invocations of  *)
(* the async function handler) suspend only at the four awaits of the      *)
(* code: the manifest supplier, getHtml, getApiRoute and the route         *)
(* handler; every action below is the synchronous run between two awaits.  *)
(*                                                                         *)
(* JavaScript values are records so that values of different JavaScript    *)
(* types stay comparable: a captured value is [t |-> "string", v |-> s] or *)
(* [t |-> "undefined", v |-> ""].  A URL string is kept in parsed form     *)
(* [pathname |-> sequence of segments, search |-> sequence of <<k, v>>].   *)
(***************************************************************************)
EXTENDS Integers, Sequences, FiniteSets, TLC

\* Number of dispatch calls made on the one request handler.
MaxCalls == 2

Calls == 1..MaxCalls

----------------------------------------------------------------------------
\* JavaScript values

Str(s) == [t |-> "string", v |-> s]

Undefined == [t |-> "undefined", v |-> ""]

\* String(value), the conversion URLSearchParams.set applies to its arguments
JsString(val) == IF val.t = "undefined" THEN "undefined" ELSE val.v

\* the values a route handler may raise: Error instances and other values
ErrBoom == [isError |-> TRUE, msg |-> "boom"]

ErrFail == [isError |-> TRUE, msg |-> "fail"]

ThrownString == [isError |-> FALSE, msg |-> "oops"]

NoError == [isError |-> FALSE, msg |-> ""]

----------------------------------------------------------------------------
\* Responses

NoParams == <<>>

Body(text) == [text |-> text, params |-> NoParams, query |-> <<>>]

\* new ExpoResponse(body, { status, headers: { 'Content-Type': ctype } })
ExpoResponse(body, status, ctype) ==
  [kind |-> "response", status |-> status, ctype |-> ctype, body |-> body,
   err |-> NoError]

\* the promise of handler rejects with err
Rejected(err) ==
  [kind |-> "rejected", status |-> 0, ctype |-> "", body |-> Body(""),
   err |-> err]

\* the promise of handler resolves to undefined
ResolvedUndefined ==
  [kind |-> "undefined", status |-> 0, ctype |-> "", body |-> Body(""),
   err |-> NoError]

NoResult ==
  [kind |-> "none", status |-> 0, ctype |-> "", body |-> Body(""),
   err |-> NoError]

----------------------------------------------------------------------------
\* Compiled route patterns (namedRegex).  A pattern is a sequence of elements
\* over the segments of a pathname: a literal segment, a named group that
\* captures one segment, or a trailing optional named group.

Lit(s) == [k |-> "lit", s |-> s, g |-> ""]

Dyn(g) == [k |-> "dyn", s |-> "", g |-> g]

Opt(g) == [k |-> "opt", s |-> "", g |-> g]

NoMatch == [ok |-> FALSE, groups |-> <<>>]

\* RegExp.prototype.exec: null, or a match whose groups object has one entry
\* per named group of the pattern, in the order the groups are written; a
\* group that did not participate in the match has the value undefined.
RECURSIVE RegExpExec(_, _)
RegExpExec(pattern, path) ==
  IF pattern = <<>>
  THEN IF path = <<>> THEN [ok |-> TRUE, groups |-> <<>>] ELSE NoMatch
  ELSE LET e == Head(pattern)
           rest == IF path = <<>> THEN NoMatch
                   ELSE RegExpExec(Tail(pattern), Tail(path))
           skip == RegExpExec(Tail(pattern), path)
       IN CASE e.k = "lit" ->
                 IF path # <<>> /\ Head(path) = e.s THEN rest ELSE NoMatch
            [] e.k = "dyn" ->
                 IF rest.ok
                 THEN [ok |-> TRUE,
                       groups |-> <<<<e.g, Str(Head(path))>>>> \o rest.groups]
                 ELSE NoMatch
            [] e.k = "opt" ->
                 IF rest.ok
                 THEN [ok |-> TRUE,
                       groups |-> <<<<e.g, Str(Head(path))>>>> \o rest.groups]
                 ELSE IF skip.ok
                 THEN [ok |-> TRUE,
                       groups |-> <<<<e.g, Undefined>>>> \o skip.groups]
                 ELSE NoMatch

\* a test that accepts a pattern matching a prefix of the path
RegExpTestPrefix(pattern, path) ==
  \E n \in 0..Len(path) : RegExpExec(pattern, SubSeq(path, 1, n)).ok

\* RegExp.prototype.test
RegExpTest(pattern, path) == RegExpExec(pattern, path).ok

----------------------------------------------------------------------------
\* URL, ExpoURL and URLSearchParams

\* new URL(request.url, 'http://expo.dev').pathname
sanitizedPathname(request) == request.url.pathname

NoFacet == [set |-> FALSE, pathname |-> <<>>, searchParams |-> <<>>]

\* new ExpoURL(url): the parsed-URL facet of the request
ExpoURL(url) ==
  [set |-> TRUE, pathname |-> url.pathname, searchParams |-> url.search]

HasName(sp, name) == \E i \in 1..Len(sp) : sp[i][1] = name

FirstIndex(sp, name) ==
  CHOOSE i \in 1..Len(sp) :
    sp[i][1] = name /\ \A j \in 1..(i - 1) : sp[j][1] # name

\* URLSearchParams.set(name, value): the first entry of that name takes the
\* value and the other entries of that name are removed; with no such entry
\* the pair is appended.  Both arguments are converted to strings.
SearchParamsSet(sp, name, value) ==
  IF HasName(sp, name)
  THEN LET f == FirstIndex(sp, name)
           keep == SelectSeq([i \in 1..Len(sp) |-> <<i, sp[i]>>],
                             LAMBDA p : p[1] = f \/ p[2][1] # name)
       IN [i \in 1..Len(keep) |->
             IF keep[i][1] = f THEN <<name, value>> ELSE keep[i][2]]
  ELSE Append(sp, <<name, value>>)

\* params[namedKey] = value on a Record kept as a sequence of <<key, value>>
RecordSet(rec, key, val) ==
  IF \E i \in 1..Len(rec) : rec[i][1] = key
  THEN [i \in 1..Len(rec) |-> IF rec[i][1] = key THEN <<key, val>> ELSE rec[i]]
  ELSE Append(rec, <<key, val>>)

\* config.routeKeys[key]: undefined when routeKeys has no such property
RouteKey(routeKeys, key) ==
  IF \E i \in 1..Len(routeKeys) : routeKeys[i][1] = key
  THEN Str((CHOOSE p \in {routeKeys[i] : i \in 1..Len(routeKeys)} : p[1] = key)[2])
  ELSE Undefined

----------------------------------------------------------------------------
\* updateRequestWithConfig (index.ts:91-112)

\* the loop of lines 101-105 over Object.entries(match.groups)
RECURSIVE SetGroups(_, _, _)
SetGroups(entries, routeKeys, acc) ==
  IF entries = <<>> THEN acc
  ELSE LET key == Head(entries)[1]
           value == Head(entries)[2]
           namedKey == RouteKey(routeKeys, key)
       IN SetGroups(Tail(entries), routeKeys,
            [searchParams |->
               SearchParamsSet(acc.searchParams, JsString(namedKey), JsString(value)),
             params |-> RecordSet(acc.params, JsString(namedKey), value)])

\* an augmenter that keeps the facet already attached to the request and
\* appends the captures to its query view
RECURSIVE AppendGroups(_, _, _)
AppendGroups(entries, routeKeys, acc) ==
  IF entries = <<>> THEN acc
  ELSE LET namedKey == RouteKey(routeKeys, Head(entries)[1])
       IN AppendGroups(Tail(entries), routeKeys,
            [searchParams |->
               Append(acc.searchParams, <<JsString(namedKey), JsString(Head(entries)[2])>>),
             params |-> RecordSet(acc.params, JsString(namedKey), Head(entries)[2])])

updateRequestWithConfigKeepsFacet(request, config) ==
  LET expoUrl == IF request.facet.set THEN request.facet ELSE ExpoURL(request.url)
      match == RegExpExec(config.namedRegex, expoUrl.pathname)
      start == [searchParams |-> expoUrl.searchParams, params |-> NoParams]
      r == IF match.ok THEN AppendGroups(match.groups, config.routeKeys, start)
           ELSE start
  IN [request |->
        [request EXCEPT !.facet = [expoUrl EXCEPT !.searchParams = r.searchParams]],
      params |-> r.params]

updateRequestWithConfig(request, config) ==
  LET expoUrl == ExpoURL(request.url)
      match == RegExpExec(config.namedRegex, expoUrl.pathname)
      start == [searchParams |-> expoUrl.searchParams, params |-> NoParams]
      r == IF match.ok THEN SetGroups(match.groups, config.routeKeys, start)
           ELSE start
  IN [request |->
        [request EXCEPT !.facet = [expoUrl EXCEPT !.searchParams = r.searchParams]],
      params |-> r.params]

----------------------------------------------------------------------------
\* Route descriptors and manifests

RouteInfo(page, file, namedRegex, routeKeys) ==
  [page |-> page, file |-> file, namedRegex |-> namedRegex, routeKeys |-> routeKeys]

KeyId == <<<<"g_id", "id">>>>

PatUsers == <<Lit("users")>>

PatUser == <<Lit("users"), Dyn("g_id")>>

PatUserOpt == <<Lit("users"), Opt("g_id")>>

\* HTML and not-found routes; the page names what getHtml yields for the route
HtmlEcho == RouteInfo("echo", "", PatUser, KeyId)

HtmlPrebuilt == RouteInfo("prebuilt", "", PatUserOpt, KeyId)

HtmlMissing == RouteInfo("missing", "", PatUsers, <<>>)

HtmlEmpty == RouteInfo("empty", "", PatUsers, <<>>)

HtmlThrows == RouteInfo("throws", "", PatUsers, <<>>)

NotFoundEcho == RouteInfo("echo", "", PatUserOpt, KeyId)

NotFoundPrebuilt == RouteInfo("prebuilt", "", PatUsers, <<>>)

NotFoundMissing == RouteInfo("missing", "", PatUserOpt, KeyId)

NotFoundEmpty == RouteInfo("empty", "", PatUsers, <<>>)

\* API routes; the file names what getApiRoute yields for the route
ApiUser == RouteInfo("", "user.js", PatUser, KeyId)

ApiUserOpt == RouteInfo("", "users.js", PatUserOpt, KeyId)

ApiFaulty == RouteInfo("", "faulty.js", PatUser, KeyId)

ApiNoFile == RouteInfo("", "nofile.js", PatUser, KeyId)

ApiPrebuilt == RouteInfo("", "prebuilt.js", PatUsers, <<>>)

ApiThrows == RouteInfo("", "throws.js", PatUser, KeyId)

ExpoRoutesManifestV1(html, api, notFound) ==
  [htmlRoutes |-> html, apiRoutes |-> api, notFoundRoutes |-> notFound]

\* the manifests a deployment may hold
Manifests ==
  << ExpoRoutesManifestV1(<<HtmlEcho, HtmlPrebuilt>>, <<ApiUser>>, <<NotFoundEcho>>),
     ExpoRoutesManifestV1(<<>>, <<ApiUserOpt, ApiUser>>, <<>>),
     ExpoRoutesManifestV1(<<HtmlMissing>>, <<ApiFaulty>>,
                          <<NotFoundMissing, NotFoundEcho>>),
     ExpoRoutesManifestV1(<<HtmlEmpty>>, <<ApiNoFile>>, <<NotFoundPrebuilt>>),
     ExpoRoutesManifestV1(<<HtmlThrows>>, <<ApiPrebuilt>>, <<>>),
     ExpoRoutesManifestV1(<<>>, <<ApiThrows>>, <<NotFoundEmpty, NotFoundEcho>>) >>

ManifestIds == 1..Len(Manifests)

\* the manifests the per-request supplier yields, when one is configured
SuppliedManifests == {1, 2}

----------------------------------------------------------------------------
\* The injected capabilities.  Each is a deterministic function of its
\* arguments; the routes above cover every kind of outcome.

PrebuiltResponse == ExpoResponse(Body("prebuilt"), 302, "application/json")

HtmlString(text, request) ==
  [t |-> "string", text |-> text, query |-> request.facet.searchParams]

\* getHtml(request, route): string | ExpoResponse | null, or it throws
getHtml(request, route) ==
  CASE route.page = "echo" -> HtmlString("<html>echo</html>", request)
    [] route.page = "empty" -> [t |-> "string", text |-> "", query |-> <<>>]
    [] route.page = "prebuilt" -> [t |-> "response", text |-> "", query |-> <<>>]
    [] route.page = "throws" -> [t |-> "throws", text |-> "", query |-> <<>>]
    [] OTHER -> [t |-> "null", text |-> "", query |-> <<>>]

\* getApiRoute(route): a module, an ExpoResponse or null, or it throws.  A
\* module is a sequence of <<method, handler>> properties.
getApiRoute(route) ==
  CASE route.file = "user.js" ->
         [t |-> "module", exports |-> <<<<"GET", "echo">>, <<"POST", "throwsBoom">>>>]
    [] route.file = "users.js" ->
         [t |-> "module", exports |-> <<<<"GET", "echo">>, <<"POST", "throwsString">>>>]
    [] route.file = "faulty.js" ->
         [t |-> "module", exports |-> <<<<"GET", "undefined">>, <<"POST", "throwsFail">>>>]
    [] route.file = "prebuilt.js" -> [t |-> "response", exports |-> <<>>]
    [] route.file = "throws.js" -> [t |-> "throws", exports |-> <<>>]
    [] OTHER -> [t |-> "null", exports |-> <<>>]

\* a lookup that serves HEAD with the GET handler of the module
MethodLookupHeadAsGet(func, method) ==
  LET name == IF method = "HEAD" THEN "GET" ELSE method
  IN IF func.t = "module" /\ \E i \in 1..Len(func.exports) : func.exports[i][1] = name
     THEN (CHOOSE p \in {func.exports[i] : i \in 1..Len(func.exports)} : p[1] = name)[2]
     ELSE ""

\* func?.[request.method]: "" stands for undefined
MethodLookup(func, method) ==
  IF func.t = "module" /\ \E i \in 1..Len(func.exports) : func.exports[i][1] = method
  THEN (CHOOSE p \in {func.exports[i] : i \in 1..Len(func.exports)} : p[1] = method)[2]
  ELSE ""

\* routeHandler(request, params): what the handler function does
routeHandler(kind, request, params) ==
  CASE kind = "echo" ->
         [ExpoResponse([text |-> "echo", params |-> params,
                        query |-> request.facet.searchParams], 200, "application/json")
            EXCEPT !.kind = "response"]
    [] kind = "undefined" -> ResolvedUndefined
    [] kind = "throwsBoom" -> Rejected(ErrBoom)
    [] kind = "throwsFail" -> Rejected(ErrFail)
    [] OTHER -> Rejected(ThrownString)

----------------------------------------------------------------------------
\* Requests

Request(method, pathname, search) ==
  [method |-> method, url |-> [pathname |-> pathname, search |-> search],
   facet |-> NoFacet]

PathUsers == <<"users">>

PathUser42 == <<"users", "42">>

\* ?id=7&q=x&id=8
SearchIdTwice == <<<<"id", "7">>, <<"q", "x">>, <<"id", "8">>>>

Requests ==
  { Request("GET", PathUsers, <<>>), Request("GET", PathUser42, <<>>),
    Request("GET", PathUser42, SearchIdTwice), Request("HEAD", PathUser42, <<>>),
    Request("POST", PathUsers, <<>>), Request("POST", PathUser42, <<>>) }

NoRequest == Request("", <<>>, <<>>)

----------------------------------------------------------------------------
\* State

VARIABLES
  hasSupplier,     \* whether getRoutesManifest was passed to createRequestHandler
  distManifest,    \* the manifest in <distFolder>/_expo/routes.json, 0: no file
  routesManifest,  \* index.ts:89, the cached manifest, 0: undefined
  request,         \* the request objects, one created per call
  call,            \* the invocations of handler
  log              \* per call, what it invoked, in order

vars == <<hasSupplier, distManifest, routesManifest, request, call, log>>

Event(op, cat, idx, req, params, err) ==
  [op |-> op, cat |-> cat, idx |-> idx, request |-> req, params |-> params,
   err |-> err]

IdleCall ==
  [pc |-> "idle", obj |-> 0, manifest |-> 0, cat |-> "", idx |-> 0,
   routeHandler |-> "", params |-> NoParams, result |-> NoResult]

Init ==
  /\ hasSupplier \in BOOLEAN
  /\ distManifest \in (IF hasSupplier THEN {0} ELSE {0} \cup ManifestIds)
  /\ routesManifest = 0
  /\ request = [c \in Calls |-> NoRequest]
  /\ call = [c \in Calls |-> IdleCall]
  /\ log = [c \in Calls |-> <<>>]

----------------------------------------------------------------------------
\* The synchronous run of handler from line 132 to its first await or return

NotFoundPlain == ExpoResponse(Body("Not found"), 404, "text/plain")

\* a scan in which a later matching route replaces an earlier one
LastMatch(routes, pathname) ==
  IF \E i \in 1..Len(routes) : RegExpTest(routes[i].namedRegex, pathname)
  THEN CHOOSE i \in 1..Len(routes) :
         /\ RegExpTest(routes[i].namedRegex, pathname)
         /\ \A j \in (i + 1)..Len(routes) : ~RegExpTest(routes[j].namedRegex, pathname)
  ELSE 0

\* index of the first route of the list whose namedRegex tests true, 0: none
FirstMatch(routes, pathname) ==
  IF \E i \in 1..Len(routes) : RegExpTest(routes[i].namedRegex, pathname)
  THEN CHOOSE i \in 1..Len(routes) :
         /\ RegExpTest(routes[i].namedRegex, pathname)
         /\ \A j \in 1..(i - 1) : ~RegExpTest(routes[j].namedRegex, pathname)
  ELSE 0

\* the namedRegex.test calls of one for loop, up to the route it stops at
TestEvents(cat, routes, pathname) ==
  LET f == FirstMatch(routes, pathname)
      n == IF f = 0 THEN Len(routes) ELSE f
  IN [i \in 1..n |-> Event("test", cat, i, NoRequest, NoParams, NoError)]

\* a stage that calls getHtml with the request as it was before augmentation
HtmlStageResolvesFirst(cat, idx, route, req, tests) ==
  LET Stage(u) ==
        [pc |-> "awaitHtml", cat |-> cat, idx |-> idx, request |-> u.request,
         params |-> NoParams, result |-> NoResult,
         events |-> tests \o
           << Event("getHtml", cat, idx, req, NoParams, NoError),
              Event("augment", cat, idx, u.request, u.params, NoError) >>]
  IN Stage(updateRequestWithConfig(req, route))

\* a handler that tests the static routes for every method
TestsHtmlAnyMethod(method) == TRUE

\* lines 138-140: static routes are tested for GET and HEAD only
TestsHtml(method) == method = "GET" \/ method = "HEAD"

\* lines 146-149 and 221-224: augment, then call getHtml
HtmlStage(cat, idx, route, req, tests) ==
  LET Stage(u) ==
        [pc |-> "awaitHtml", cat |-> cat, idx |-> idx, request |-> u.request,
         params |-> NoParams, result |-> NoResult,
         events |-> tests \o
           << Event("augment", cat, idx, u.request, u.params, NoError),
              Event("getHtml", cat, idx, u.request, NoParams, NoError) >>]
  IN Stage(updateRequestWithConfig(req, route))

\* a handler that tests the API routes before the static routes
DispatchApiFirst(manifest, req) ==
  LET pathname == sanitizedPathname(req)
      a == FirstMatch(manifest.apiRoutes, pathname)
      h == IF TestsHtml(req.method) THEN FirstMatch(manifest.htmlRoutes, pathname) ELSE 0
      n == FirstMatch(manifest.notFoundRoutes, pathname)
      ta == TestEvents("api", manifest.apiRoutes, pathname)
      th == ta \o (IF TestsHtml(req.method)
                   THEN TestEvents("html", manifest.htmlRoutes, pathname) ELSE <<>>)
      tn == th \o TestEvents("notFound", manifest.notFoundRoutes, pathname)
  IN IF a # 0
     THEN [pc |-> "awaitApiRoute", cat |-> "api", idx |-> a, request |-> req,
           params |-> NoParams, result |-> NoResult,
           events |-> Append(ta, Event("getApiRoute", "api", a, NoRequest, NoParams, NoError))]
     ELSE IF h # 0 THEN HtmlStage("html", h, manifest.htmlRoutes[h], req, th)
     ELSE IF n # 0 THEN HtmlStage("notFound", n, manifest.notFoundRoutes[n], req, tn)
     ELSE [pc |-> "done", cat |-> "", idx |-> 0, request |-> req,
           params |-> NoParams, result |-> NotFoundPlain, events |-> tn]

\* lines 132-253 up to the first await: which stage the request enters
Dispatch(manifest, req) ==
  LET pathname == sanitizedPathname(req)
      h == IF TestsHtml(req.method) THEN FirstMatch(manifest.htmlRoutes, pathname) ELSE 0
      a == FirstMatch(manifest.apiRoutes, pathname)
      n == FirstMatch(manifest.notFoundRoutes, pathname)
      th == IF TestsHtml(req.method) THEN TestEvents("html", manifest.htmlRoutes, pathname)
            ELSE <<>>
      ta == th \o TestEvents("api", manifest.apiRoutes, pathname)
      tn == ta \o TestEvents("notFound", manifest.notFoundRoutes, pathname)
  IN IF h # 0 THEN HtmlStage("html", h, manifest.htmlRoutes[h], req, th)
     ELSE IF a # 0
     THEN [pc |-> "awaitApiRoute", cat |-> "api", idx |-> a, request |-> req,
           params |-> NoParams, result |-> NoResult,
           events |-> Append(ta, Event("getApiRoute", "api", a, NoRequest, NoParams, NoError))]
     ELSE IF n # 0 THEN HtmlStage("notFound", n, manifest.notFoundRoutes[n], req, tn)
     ELSE [pc |-> "done", cat |-> "", idx |-> 0, request |-> req,
           params |-> NoParams, result |-> NotFoundPlain, events |-> tn]

----------------------------------------------------------------------------
\* Response synthesis

\* a static route answered with the status of a 404 route
HtmlRouteResponseAs404(contents) ==
  IF contents.t = "null" \/ (contents.t = "string" /\ contents.text = "")
  THEN NotFoundPlain
  ELSE IF contents.t = "response" THEN PrebuiltResponse
  ELSE ExpoResponse([text |-> contents.text, params |-> NoParams,
                     query |-> contents.query], 404, "text/html")

\* lines 152-168: the outcome of a static route
HtmlRouteResponse(contents) ==
  IF contents.t = "null" \/ (contents.t = "string" /\ contents.text = "")
  THEN NotFoundPlain
  ELSE IF contents.t = "response" THEN PrebuiltResponse
  ELSE ExpoResponse([text |-> contents.text, params |-> NoParams,
                     query |-> contents.query], 200, "text/html")

\* a 404 route that answers string content as a static route does
NotFoundRouteResponseAs200(contents) ==
  IF contents.t = "null" \/ (contents.t = "string" /\ contents.text = "")
  THEN NotFoundPlain
  ELSE IF contents.t = "response" THEN PrebuiltResponse
  ELSE ExpoResponse([text |-> contents.text, params |-> NoParams,
                     query |-> contents.query], 200, "text/html")

\* a 404 route that forces status 404 onto a pre-built response
NotFoundRouteResponseForces404(contents) ==
  IF contents.t = "null" \/ (contents.t = "string" /\ contents.text = "")
  THEN NotFoundPlain
  ELSE IF contents.t = "response" THEN [PrebuiltResponse EXCEPT !.status = 404]
  ELSE ExpoResponse([text |-> contents.text, params |-> NoParams,
                     query |-> contents.query], 404, "text/html")

\* lines 227-243: the outcome of a 404 route
NotFoundRouteResponse(contents) ==
  IF contents.t = "null" \/ (contents.t = "string" /\ contents.text = "")
  THEN NotFoundPlain
  ELSE IF contents.t = "response" THEN PrebuiltResponse
  ELSE ExpoResponse([text |-> contents.text, params |-> NoParams,
                     query |-> contents.query], 404, "text/html")

\* lines 186-191
MethodNotAllowed == ExpoResponse(Body("Method not allowed"), 405, "text/plain")

\* lines 121-126
NoManifestResponse == ExpoResponse(Body("No routes manifest found"), 404, "text/plain")

\* logApiRouteExecutionError(error): the hook records its argument and returns
logApiRouteExecutionError(error) ==
  <<Event("logApiRouteExecutionError", "api", 0, NoRequest, NoParams, error)>>

\* a catch block that reports the error twice
CatchBlockLogsTwice(error) ==
  [events |-> IF error.isError
              THEN logApiRouteExecutionError(error) \o logApiRouteExecutionError(error)
              ELSE <<>>,
   result |-> ExpoResponse(Body("Internal server error"), 500, "text/plain")]

\* a catch block without the instanceof Error test
CatchBlockLogsAnyValue(error) ==
  [events |-> logApiRouteExecutionError(error),
   result |-> ExpoResponse(Body("Internal server error"), 500, "text/plain")]

\* a catch block that answers with the message of the error
CatchBlockLeaksError(error) ==
  [events |-> IF error.isError THEN logApiRouteExecutionError(error) ELSE <<>>,
   result |-> ExpoResponse(Body(error.msg), 500, "text/plain")]

\* lines 200-211: the catch block around the route handler
CatchBlock(error) ==
  [events |-> IF error.isError THEN logApiRouteExecutionError(error) ELSE <<>>,
   result |-> ExpoResponse(Body("Internal server error"), 500, "text/plain")]

----------------------------------------------------------------------------
\* Actions: one per synchronous run of handler between two awaits

InFlight(c) == call[c].pc \notin {"idle", "done"}

DoneCalls == {d \in Calls : call[d].pc = "done"}

RouteOf(c) ==
  LET m == Manifests[call[c].manifest]
  IN CASE call[c].cat = "html" -> m.htmlRoutes[call[c].idx]
       [] call[c].cat = "api" -> m.apiRoutes[call[c].idx]
       [] OTHER -> m.notFoundRoutes[call[c].idx]

\* a handler that scans the manifest the cache held before this call stored
\* its own
ManifestInUseStale(before, stored) == IF before # 0 THEN before ELSE stored

\* lines 140, 173, 215: the reads of routesManifest, all in the synchronous
\* run that follows the store of lines 118 and 129
ManifestInUse(before, stored) == stored

\* lines 132-253 entered by call c with the manifest now in routesManifest
Enter(c, o, req, events) ==
  \E inUse \in {ManifestInUse(routesManifest, routesManifest')} :
  \E d \in {Dispatch(Manifests[inUse], req)} :
     /\ call' = [call EXCEPT ![c] =
                   [IdleCall EXCEPT !.pc = d.pc, !.obj = o,
                      !.manifest = inUse, !.cat = d.cat, !.idx = d.idx,
                      !.result = d.result]]
     /\ request' = [request EXCEPT ![o] = d.request]
     /\ log' = [log EXCEPT ![c] = events \o d.events]

\* call c ends with this result
Return(c, result, events) ==
  /\ call' = [call EXCEPT ![c].pc = "done", ![c].result = result]
  /\ log' = [log EXCEPT ![c] = log[c] \o events]

\* a handler that reads the default source on every call
NeedsReadAlways(cache) == TRUE

\* line 128: !routesManifest
NeedsRead(cache) == cache = 0

\* a handler that assigns whatever the supplier yields
StoreManifestAlways(cache, manifest) == manifest

\* lines 117-118: the cache after the supplier yields manifest (0: null)
StoreManifest(cache, manifest) == IF manifest # 0 THEN manifest ELSE cache

\* a handler that serves from the cached manifest when the supplier yields null
HasManifestOrCached(cache, manifest) == manifest # 0 \/ cache # 0

\* line 117: if (manifest)
HasManifest(cache, manifest) == manifest # 0

\* handler(request) is called: lines 115-130, then on without a supplier
Begin(c, o, req) ==
  IF hasSupplier
  THEN /\ call' = [call EXCEPT ![c] =
                     [IdleCall EXCEPT !.pc = "awaitManifest", !.obj = o]]
       /\ request' = [request EXCEPT ![o] = req]
       /\ log' = [log EXCEPT ![c] =
                    <<Event("getInternalRoutesManifest", "", 0, NoRequest, NoParams, NoError)>>]
       /\ UNCHANGED routesManifest
  ELSE IF ~NeedsRead(routesManifest)
  THEN /\ UNCHANGED routesManifest
       /\ Enter(c, o, req, <<>>)
  ELSE IF distManifest = 0
  THEN \* fs.readFileSync throws: the promise of handler rejects
       /\ call' = [call EXCEPT ![c] =
                     [IdleCall EXCEPT !.pc = "done", !.obj = o,
                        !.result = Rejected([isError |-> TRUE, msg |-> "ENOENT"])]]
       /\ request' = [request EXCEPT ![o] = req]
       /\ log' = [log EXCEPT ![c] =
                    <<Event("getRoutesManifest", "", 0, NoRequest, NoParams,
                            [isError |-> TRUE, msg |-> "ENOENT"])>>]
       /\ UNCHANGED routesManifest
  ELSE /\ routesManifest' = distManifest
       /\ Enter(c, o, req,
                <<Event("getRoutesManifest", "", 0, NoRequest, NoParams, NoError)>>)

\* the caller calls handler with a new request object, or again with a request
\* object an earlier call has returned from
Start(c) ==
  /\ call[c].pc = "idle"
  /\ \A b \in Calls : b < c => call[b].pc # "idle"
  /\ \/ \E r \in Requests : Begin(c, c, r)
     \/ \E o \in Calls :
          /\ \E d \in DoneCalls : call[d].obj = o
          /\ \A e \in Calls : InFlight(e) => call[e].obj # o
          /\ Begin(c, o, request[o])
  /\ UNCHANGED <<hasSupplier, distManifest>>

\* await getInternalRoutesManifest(distFolder) settles: lines 116-127
ManifestSettled(c) ==
  /\ call[c].pc = "awaitManifest"
  /\ \/ \E m \in SuppliedManifests \cup {0} :
          /\ routesManifest' = StoreManifest(routesManifest, m)
          /\ IF HasManifest(routesManifest, m)
             THEN Enter(c, call[c].obj, request[call[c].obj],
                        Append(log[c], Event("supplierSettled", "", m, NoRequest,
                                             NoParams, NoError)))
             ELSE /\ Return(c, NoManifestResponse,
                            <<Event("supplierSettled", "", 0, NoRequest, NoParams,
                                    NoError)>>)
                  /\ UNCHANGED request
     \/ /\ Return(c, Rejected(ErrFail),
                  <<Event("supplierSettled", "", 0, NoRequest, NoParams, ErrFail)>>)
        /\ UNCHANGED <<routesManifest, request>>
  /\ UNCHANGED <<hasSupplier, distManifest>>

\* await getHtml(request, route) settles: lines 149-168 and 224-243
GetHtmlSettled(c) ==
  /\ call[c].pc = "awaitHtml"
  /\ LET contents == getHtml(request[call[c].obj], RouteOf(c))
     IN Return(c,
               IF contents.t = "throws" THEN Rejected(ErrBoom)
               ELSE IF call[c].cat = "html" THEN HtmlRouteResponse(contents)
               ELSE NotFoundRouteResponse(contents),
               <<>>)
  /\ UNCHANGED <<hasSupplier, distManifest, routesManifest, request>>

\* await getApiRoute(route) settles: lines 178-199, up to the route handler call
GetApiRouteSettled(c) ==
  /\ call[c].pc = "awaitApiRoute"
  /\ \E func \in {getApiRoute(RouteOf(c))}, req \in {request[call[c].obj]} :
     \E handlerFn \in {MethodLookup(func, req.method)},
        u \in {updateRequestWithConfig(req, RouteOf(c))} :
        IF func.t = "throws"
        THEN Return(c, Rejected(ErrBoom), <<>>) /\ UNCHANGED request
        ELSE IF func.t = "response"
        THEN Return(c, PrebuiltResponse, <<>>) /\ UNCHANGED request
        ELSE IF handlerFn = ""
        THEN Return(c, MethodNotAllowed, <<>>) /\ UNCHANGED request
        ELSE /\ call' = [call EXCEPT ![c].pc = "awaitRouteHandler",
                                     ![c].routeHandler = handlerFn,
                                     ![c].params = u.params]
             /\ request' = [request EXCEPT ![call[c].obj] = u.request]
             /\ log' = [log EXCEPT ![c] = log[c] \o
                  << Event("augment", "api", call[c].idx, u.request, u.params, NoError),
                     Event("routeHandler", "api", call[c].idx, u.request, u.params, NoError) >>]
  /\ UNCHANGED <<hasSupplier, distManifest, routesManifest>>

\* await routeHandler(request, params) settles: lines 197-211
RouteHandlerSettled(c) ==
  /\ call[c].pc = "awaitRouteHandler"
  /\ \E out \in {routeHandler(call[c].routeHandler, request[call[c].obj], call[c].params)} :
        IF out.kind = "rejected"
        THEN \E caught \in {CatchBlock(out.err)} : Return(c, caught.result, caught.events)
        ELSE Return(c, out, <<>>)
  /\ UNCHANGED <<hasSupplier, distManifest, routesManifest, request>>

Next ==
  \E c \in Calls :
    \/ Start(c)
    \/ ManifestSettled(c)
    \/ GetHtmlSettled(c)
    \/ GetApiRouteSettled(c)
    \/ RouteHandlerSettled(c)

Spec == Init /\ [][Next]_vars

----------------------------------------------------------------------------
\* What a call did, read from its log

Done(c) == call[c].pc = "done"

Events(c) == {log[c][i] : i \in 1..Len(log[c])}

EventsOf(c, ops) == {e \in Events(c) : e.op \in ops}

CountOf(c, op) == Cardinality({i \in 1..Len(log[c]) : log[c][i].op = op})

RoutesOf(m, cat) ==
  CASE m = 0 -> <<>>
    [] cat = "html" -> Manifests[m].htmlRoutes
    [] cat = "api" -> Manifests[m].apiRoutes
    [] OTHER -> Manifests[m].notFoundRoutes

\* the method and the pathname call c was made with
MethodOf(c) == request[call[c].obj].method

PathOf(c) == request[call[c].obj].url.pathname

Matches(route, pathname) == RegExpExec(route.namedRegex, pathname).ok

\* the route handler of call c was invoked and raised this value
Raised(c, err) ==
  /\ Done(c)
  /\ \E e \in EventsOf(c, {"routeHandler"}) :
       LET out == routeHandler(MethodLookup(getApiRoute(RoutesOf(call[c].manifest, "api")[e.idx]),
                                            e.request.method),
                               e.request, e.params)
       IN out.kind = "rejected" /\ out.err = err

RaisedValues == {ErrBoom, ErrFail, ThrownString}

IsPlain(result, status) ==
  result.kind = "response" /\ result.status = status /\ result.ctype = "text/plain"

----------------------------------------------------------------------------
\* C1: every dispatch ends by returning a Response, never by an exception
\* and never with no value.
C1_AlwaysResponse == \A c \in Calls : Done(c) => call[c].result.kind = "response"

\* C2 as stated: a route handler that raises any value has the hook invoked
\* exactly once, with that value.
C2_HookOnAnyValue ==
  \A c \in Calls : \A err \in RaisedValues :
    Raised(c, err) =>
      /\ CountOf(c, "logApiRouteExecutionError") = 1
      /\ \A e \in EventsOf(c, {"logApiRouteExecutionError"}) : e.err = err

\* C2 as amended: a route handler that raises an Error instance has the hook
\* invoked exactly once, with that Error; one that raises a value that is not
\* an Error instance has the hook not invoked at all.
C2_HookOnError ==
  \A c \in Calls : \A err \in RaisedValues :
    Raised(c, err) =>
      IF err.isError
      THEN /\ CountOf(c, "logApiRouteExecutionError") = 1
           /\ \A e \in EventsOf(c, {"logApiRouteExecutionError"}) : e.err = err
      ELSE CountOf(c, "logApiRouteExecutionError") = 0

C2_Witness ==
  \E c \in Calls :
    /\ Raised(c, ErrBoom)
    /\ \E e \in EventsOf(c, {"logApiRouteExecutionError"}) : e.err = ErrBoom

\* C3: a route handler that raises gives the 500 text/plain response with the
\* fixed body, the same for every raised value.
C3_GenericFailure ==
  \A c \in Calls : \A err \in RaisedValues :
    Raised(c, err) =>
      /\ IsPlain(call[c].result, 500)
      /\ call[c].result.body = Body("Internal server error")

C3_Witness ==
  \E c, d \in Calls :
    /\ Raised(c, ErrBoom) /\ Raised(d, ThrownString)
    /\ call[c].result.status = 500 /\ call[d].result = call[c].result

----------------------------------------------------------------------------
\* Which route a request is due, stated from the manifest alone

Acquired(c) == Done(c) /\ call[c].manifest # 0

LeastMatch(routes, pathname, i) ==
  /\ i \in 1..Len(routes)
  /\ Matches(routes[i], pathname)
  /\ \A j \in 1..(i - 1) : ~Matches(routes[j], pathname)

\* call c is due the i-th static route
HtmlDispatched(c, i) ==
  /\ Acquired(c)
  /\ MethodOf(c) \in {"GET", "HEAD"}
  /\ LeastMatch(RoutesOf(call[c].manifest, "html"), PathOf(c), i)

\* call c reaches API matching
ReachesApi(c) ==
  /\ Acquired(c)
  /\ \A i \in 1..Len(RoutesOf(call[c].manifest, "html")) : ~HtmlDispatched(c, i)

\* call c is due the i-th API route
ApiDispatched(c, i) ==
  /\ ReachesApi(c)
  /\ LeastMatch(RoutesOf(call[c].manifest, "api"), PathOf(c), i)

ApiRoutesOf(c) == RoutesOf(call[c].manifest, "api")

\* call c is due the i-th 404 route
NotFoundDispatched(c, i) ==
  /\ ReachesApi(c)
  /\ \A j \in DOMAIN ApiRoutesOf(c) : ~ApiDispatched(c, j)
  /\ LeastMatch(RoutesOf(call[c].manifest, "notFound"), PathOf(c), i)

HasExport(func, method) ==
  func.t = "module" /\ \E k \in 1..Len(func.exports) : func.exports[k][1] = method

\* C4: an API route whose module getApiRoute resolves to null is answered
\* with a 404 plain-text response.
C4_NullModuleIs404 ==
  \A c \in Calls : \A i \in DOMAIN ApiRoutesOf(c) :
    (ApiDispatched(c, i) /\ getApiRoute(ApiRoutesOf(c)[i]).t = "null")
      => IsPlain(call[c].result, 404)

\* C5: an API route whose module has no property for the method of the
\* request is answered with exactly the 405 plain-text response, no route
\* handler and no error hook is invoked and no 404 route is consulted.
C5_MethodNotAllowed ==
  \A c \in Calls : \A i \in DOMAIN ApiRoutesOf(c) :
    (/\ ApiDispatched(c, i)
     /\ getApiRoute(ApiRoutesOf(c)[i]).t = "module"
     /\ ~HasExport(getApiRoute(ApiRoutesOf(c)[i]), MethodOf(c)))
      => /\ IsPlain(call[c].result, 405)
         /\ call[c].result.body = Body("Method not allowed")
         /\ EventsOf(c, {"routeHandler", "logApiRouteExecutionError"}) = {}
         /\ \A e \in Events(c) : e.cat # "notFound"

C5_Witness ==
  \E c \in Calls :
    /\ ApiDispatched(c, 1)
    /\ getApiRoute(ApiRoutesOf(c)[1]).t = "module"
    /\ MethodOf(c) = "HEAD"
    /\ PathOf(c) = PathUser42
    /\ call[c].result.status = 405

\* the groups of the match of a route that took part in the match, under
\* their public names
CapturedParams(route, pathname) ==
  LET groups == RegExpExec(route.namedRegex, pathname).groups
  IN {<<RouteKey(route.routeKeys, groups[k][1]).v, groups[k][2]>> :
        k \in {k \in 1..Len(groups) : groups[k][2].t = "string"}}

\* URLSearchParams.getAll(name)
SearchParamsGetAll(sp, name) ==
  LET hits == SelectSeq(sp, LAMBDA p : p[1] = name)
  IN [k \in 1..Len(hits) |-> hits[k][2]]

\* C6: the Params of a matched route are exactly the public names mapped to
\* the captured substrings, groups that took no part in the match left out,
\* and the query view holds each of these values as the one value of its name.
C6_ParamsAreCaptures ==
  \A c \in Calls : \A e \in EventsOf(c, {"augment", "routeHandler"}) :
    LET route == RoutesOf(call[c].manifest, e.cat)[e.idx]
        want == CapturedParams(route, PathOf(c))
    IN /\ {e.params[k] : k \in 1..Len(e.params)} = want
       /\ \A p \in want :
            SearchParamsGetAll(e.request.facet.searchParams, p[1]) = <<p[2].v>>
       /\ \A k \in 1..Len(e.request.facet.searchParams) :
            LET q == e.request.facet.searchParams[k]
            IN \/ \E p \in want : p[1] = q[1]
               \/ \E j \in 1..Len(e.request.url.search) : e.request.url.search[j] = q

\* C7: within one category the earliest declared matching route is the one
\* dispatched: whatever is augmented, resolved or handled is that route, and
\* no later matching route of the category is.
C7_FirstMatchWins ==
  \A c \in Calls :
    /\ \A e \in EventsOf(c, {"augment", "getHtml", "getApiRoute", "routeHandler"}) :
         LeastMatch(RoutesOf(call[c].manifest, e.cat), PathOf(c), e.idx)
    /\ \A i \in DOMAIN RoutesOf(call[c].manifest, "html") :
         HtmlDispatched(c, i) =>
           \E e \in EventsOf(c, {"getHtml"}) : e.cat = "html" /\ e.idx = i
    /\ \A i \in DOMAIN RoutesOf(call[c].manifest, "api") :
         ApiDispatched(c, i) =>
           \E e \in EventsOf(c, {"getApiRoute"}) : e.cat = "api" /\ e.idx = i
    /\ \A i \in DOMAIN RoutesOf(call[c].manifest, "notFound") :
         NotFoundDispatched(c, i) =>
           \E e \in EventsOf(c, {"getHtml"}) : e.cat = "notFound" /\ e.idx = i

\* a second route of the category matches too, and the first one fails
C7_Witness ==
  \E c \in Calls : \E e \in EventsOf(c, {"getHtml", "getApiRoute"}) :
    /\ Done(c)
    /\ e.idx = 1
    /\ Len(RoutesOf(call[c].manifest, e.cat)) = 2
    /\ Matches(RoutesOf(call[c].manifest, e.cat)[2], PathOf(c))
    /\ call[c].result.kind = "response"
    /\ call[c].result.status \in {404, 405, 500}

\* call c matches no route of any category
MatchesNothing(c) ==
  /\ Acquired(c)
  /\ \A cat \in {"html", "api", "notFound"} :
       \A i \in DOMAIN RoutesOf(call[c].manifest, cat) :
         ~Matches(RoutesOf(call[c].manifest, cat)[i], PathOf(c))

\* C8: a request whose path matches no route of any category is answered
\* with a 404 text/plain response, and nothing is resolved, handled or logged.
C8_NoMatchIs404 ==
  \A c \in Calls :
    MatchesNothing(c) =>
      /\ IsPlain(call[c].result, 404)
      /\ EventsOf(c, {"augment", "getHtml", "getApiRoute", "routeHandler",
                      "logApiRouteExecutionError"}) = {}

C8_Witness ==
  \E c \in Calls :
    /\ MatchesNothing(c)
    /\ Len(RoutesOf(call[c].manifest, "html")) > 0
    /\ Len(RoutesOf(call[c].manifest, "api")) > 0
    /\ call[c].result.status = 404

\* C9: a GET or HEAD request due a static route whose content resolves to a
\* non-empty string is answered with 200, text/html and that string as body.
C9_HtmlIs200 ==
  \A c \in Calls : \A i \in DOMAIN RoutesOf(call[c].manifest, "html") :
    HtmlDispatched(c, i) =>
      \E e \in EventsOf(c, {"getHtml"}) :
        /\ e.cat = "html" /\ e.idx = i
        /\ LET contents == getHtml(e.request, RoutesOf(call[c].manifest, "html")[i])
           IN (contents.t = "string" /\ contents.text # "") =>
                /\ call[c].result.kind = "response"
                /\ call[c].result.status = 200
                /\ call[c].result.ctype = "text/html"
                /\ call[c].result.body.text = contents.text
                /\ call[c].result.body.query = contents.query

C9_Witness ==
  \E c \in Calls :
    /\ HtmlDispatched(c, 1)
    /\ MethodOf(c) = "HEAD"
    /\ call[c].result.status = 200
    /\ call[c].result.body.text = "<html>echo</html>"

\* C10: two calls with the same method and URL against the same manifest
\* return the same response, whether the second is given an equal request
\* object or the very request object the first call has augmented (two calls
\* share a request object only when one followed the other).
C10_Idempotent ==
  \A c, d \in Calls :
    (/\ Acquired(c) /\ Acquired(d)
     /\ call[c].manifest = call[d].manifest
     /\ MethodOf(c) = MethodOf(d)
     /\ request[call[c].obj].url = request[call[d].obj].url)
      => call[c].result = call[d].result

\* the second call re-dispatches the request object of the first, and the
\* response shows the query view the handler saw
C10_Witness ==
  \E c, d \in Calls :
    /\ c # d
    /\ Acquired(c) /\ Acquired(d)
    /\ call[c].obj = call[d].obj
    /\ call[c].manifest = call[d].manifest
    /\ call[d].result.kind = "response"
    /\ call[d].result.body.text = "echo"
    /\ call[d].result.body.query # <<>>

----------------------------------------------------------------------------
\* the calls that read the default source and got a manifest
Readers ==
  {c \in Calls : \E e \in EventsOf(c, {"getRoutesManifest"}) : ~e.err.isError}

\* C11: without a per-request supplier the default source is read
\* successfully at most once over all calls, however they interleave, and
\* every call that starts once the cache is populated runs on the cached
\* manifest without reading again.
C11_CachePopulatedOnce ==
  ~hasSupplier =>
    /\ Cardinality(Readers) <= 1
    /\ \A c \in Calls : CountOf(c, "getRoutesManifest") <= 1
    /\ routesManifest # 0 => Cardinality(Readers) = 1
    /\ \A c \in Calls :
         call[c].pc # "idle" =>
           /\ call[c].manifest = routesManifest
           /\ c \notin Readers /\ routesManifest # 0 =>
                EventsOf(c, {"getRoutesManifest"}) = {}

\* a second call starts and ends on the cached manifest while the call that
\* read it is still in flight
C11_Witness ==
  /\ ~hasSupplier
  /\ \E c, d \in Calls :
       /\ c \in Readers /\ InFlight(c)
       /\ Acquired(d) /\ d \notin Readers
       /\ call[d].manifest = routesManifest

\* the supplier call of c has yielded manifest m (0: null)
Supplied(c, m) ==
  \E e \in EventsOf(c, {"supplierSettled"}) : e.idx = m /\ ~e.err.isError

\* C12: a call whose supplier yields no manifest returns the 404 text/plain
\* response with the diagnostic body, and does nothing else: no route is
\* tested, nothing is resolved, handled or logged, whatever the cache holds.
C12_NoManifestIs404 ==
  \A c \in Calls :
    Supplied(c, 0) =>
      /\ Done(c)
      /\ IsPlain(call[c].result, 404)
      /\ call[c].result.body = Body("No routes manifest found")
      /\ \A e \in Events(c) : e.op \in {"getInternalRoutesManifest", "supplierSettled"}

\* the supplier yields null while the manifest of another call is cached
C12_Witness ==
  \E c, d \in Calls :
    /\ Supplied(c, 0)
    /\ Acquired(d)
    /\ routesManifest = call[d].manifest
    /\ call[c].result.status = 404

\* the place of a category in the order of the stages
StageOf(cat) ==
  CASE cat = "html" -> 1 [] cat = "api" -> 2 [] cat = "notFound" -> 3 [] OTHER -> 0

DispatchOps == {"augment", "getHtml", "getApiRoute", "routeHandler"}

TestsOf(c, cat) == {e \in EventsOf(c, {"test"}) : e.cat = cat}

\* C13: the stages of a call run in the order HTML, API, not-found; a call
\* that dispatches a route of one category tests and resolves no route of a
\* later category, tests nothing more afterwards, and reaches a category only
\* after it has tested every route of the categories before it; so a GET due
\* a static route never has the API resolver invoked.
C13_StagesInOrder ==
  \A c \in Calls :
    /\ \A j, k \in 1..Len(log[c]) :
         /\ j < k => StageOf(log[c][j].cat) <= StageOf(log[c][k].cat)
         /\ log[c][j].op \in DispatchOps =>
              /\ StageOf(log[c][k].cat) <= StageOf(log[c][j].cat)
              /\ j < k => log[c][k].op # "test"
              /\ log[c][k].op \in DispatchOps =>
                   log[c][k].cat = log[c][j].cat /\ log[c][k].idx = log[c][j].idx
    /\ \A e \in Events(c) :
         /\ (StageOf(e.cat) >= 2 /\ MethodOf(c) \in {"GET", "HEAD"}) =>
              Cardinality(TestsOf(c, "html")) = Len(RoutesOf(call[c].manifest, "html"))
         /\ StageOf(e.cat) = 3 =>
              Cardinality(TestsOf(c, "api")) = Len(RoutesOf(call[c].manifest, "api"))
    /\ \A i \in DOMAIN RoutesOf(call[c].manifest, "html") :
         HtmlDispatched(c, i) => \A e \in Events(c) : StageOf(e.cat) <= 1
    /\ \A i \in DOMAIN RoutesOf(call[c].manifest, "api") :
         ApiDispatched(c, i) => \A e \in Events(c) : StageOf(e.cat) <= 2

\* a GET whose path matches a static route and an API route, answered by the
\* static route without the API resolver being invoked
C13_Witness ==
  \E c \in Calls :
    /\ HtmlDispatched(c, 1)
    /\ MethodOf(c) = "GET"
    /\ \E i \in DOMAIN RoutesOf(call[c].manifest, "api") :
         Matches(RoutesOf(call[c].manifest, "api")[i], PathOf(c))
    /\ call[c].result.kind = "response"
    /\ EventsOf(c, {"getApiRoute"}) = {}

\* the tests of one category a call makes once it reaches that category: every
\* route up to and including the first that matches
TestedUpTo(routes, pathname) ==
  IF \E i \in 1..Len(routes) : LeastMatch(routes, pathname, i)
  THEN CHOOSE i \in 1..Len(routes) : LeastMatch(routes, pathname, i)
  ELSE Len(routes)

\* C14: a request whose method is neither GET nor HEAD has no static route
\* tested or resolved; API routes are tested for every method that reaches
\* them and 404 routes for every method that reaches them, so such a request
\* whose path matches only a static route and a 404 route is answered from
\* the 404 route.
C14_MethodGating ==
  \A c \in Calls :
    /\ (call[c].pc # "idle" /\ MethodOf(c) \notin {"GET", "HEAD"}) =>
         \A e \in Events(c) : e.cat # "html"
    /\ ReachesApi(c) =>
         {e.idx : e \in TestsOf(c, "api")} =
           1..TestedUpTo(RoutesOf(call[c].manifest, "api"), PathOf(c))
    /\ (ReachesApi(c) /\ \A j \in DOMAIN ApiRoutesOf(c) : ~ApiDispatched(c, j)) =>
         {e.idx : e \in TestsOf(c, "notFound")} =
           1..TestedUpTo(RoutesOf(call[c].manifest, "notFound"), PathOf(c))
    /\ \A i \in DOMAIN RoutesOf(call[c].manifest, "notFound") :
         NotFoundDispatched(c, i) =>
           \E e \in EventsOf(c, {"getHtml"}) :
             /\ e.cat = "notFound" /\ e.idx = i
             /\ \/ call[c].result.kind = "rejected"
                \/ call[c].result =
                     NotFoundRouteResponse(
                       getHtml(e.request, RoutesOf(call[c].manifest, "notFound")[i]))

\* a POST whose path matches a static route and a 404 route and no API route,
\* answered with the content of the 404 route
C14_Witness ==
  \E c \in Calls :
    /\ NotFoundDispatched(c, 1)
    /\ MethodOf(c) = "POST"
    /\ \E i \in DOMAIN RoutesOf(call[c].manifest, "html") :
         Matches(RoutesOf(call[c].manifest, "html")[i], PathOf(c))
    /\ call[c].result.kind = "response"
    /\ call[c].result.status = 404
    /\ call[c].result.ctype = "text/html"

\* the content getHtml resolved for the route call c dispatched, if any
ResolvedContents(c, cat, i) ==
  {getHtml(e.request, RoutesOf(call[c].manifest, cat)[i]) :
     e \in {x \in EventsOf(c, {"getHtml"}) : x.cat = cat /\ x.idx = i}}

\* C15: in every category, when the resolver of the first matching route
\* yields a pre-built response, the call returns that response with status,
\* content type and body unchanged; an API route does so without augmenting
\* the request and without invoking a handler, and a 404 route does not force
\* the status to 404.
C15_PrebuiltVerbatim ==
  \A c \in Calls :
    /\ \A i \in DOMAIN RoutesOf(call[c].manifest, "html") :
         (HtmlDispatched(c, i) /\ \E k \in ResolvedContents(c, "html", i) : k.t = "response")
           => call[c].result = PrebuiltResponse
    /\ \A i \in DOMAIN RoutesOf(call[c].manifest, "api") :
         (ApiDispatched(c, i) /\ getApiRoute(ApiRoutesOf(c)[i]).t = "response") =>
           /\ call[c].result = PrebuiltResponse
           /\ EventsOf(c, {"augment", "routeHandler", "logApiRouteExecutionError"}) = {}
           /\ CountOf(c, "getApiRoute") = 1
    /\ \A i \in DOMAIN RoutesOf(call[c].manifest, "notFound") :
         (NotFoundDispatched(c, i) /\ \E k \in ResolvedContents(c, "notFound", i) : k.t = "response")
           => call[c].result = PrebuiltResponse

\* a 404 route resolved to a pre-built response whose status is not 404
C15_Witness ==
  \E c \in Calls : \E i \in DOMAIN RoutesOf(call[c].manifest, "notFound") :
    /\ NotFoundDispatched(c, i)
    /\ \E k \in ResolvedContents(c, "notFound", i) : k.t = "response"
    /\ call[c].result.status = 302
    /\ call[c].result.ctype = "application/json"

\* the 404 route i was augmented and then resolved, as a static route is
AugmentedAndResolved(c, cat, i) ==
  \E j, k \in 1..Len(log[c]) :
    /\ j < k
    /\ log[c][j].op = "augment" /\ log[c][j].cat = cat /\ log[c][j].idx = i
    /\ log[c][k].op = "getHtml" /\ log[c][k].cat = cat /\ log[c][k].idx = i
    /\ log[c][j].request.facet.set
    /\ log[c][k].request = log[c][j].request

\* C16 as stated: for a request due a 404 route, the route is augmented and
\* resolved as a static route is, any string content is returned with status
\* 404, text/html and that string as body, and missing content gives a 404
\* text/plain response.
C16_StringIs404Html ==
  \A c \in Calls : \A i \in DOMAIN RoutesOf(call[c].manifest, "notFound") :
    NotFoundDispatched(c, i) =>
      /\ AugmentedAndResolved(c, "notFound", i)
      /\ \A contents \in ResolvedContents(c, "notFound", i) :
           /\ contents.t = "string" =>
                /\ call[c].result.kind = "response"
                /\ call[c].result.status = 404
                /\ call[c].result.ctype = "text/html"
                /\ call[c].result.body.text = contents.text
           /\ contents.t = "null" => call[c].result = NotFoundPlain

\* C16 amended: the string must be non-empty; the empty string is answered as
\* missing content is, with the 404 text/plain response.
C16_NonEmptyStringIs404Html ==
  \A c \in Calls : \A i \in DOMAIN RoutesOf(call[c].manifest, "notFound") :
    NotFoundDispatched(c, i) =>
      /\ AugmentedAndResolved(c, "notFound", i)
      /\ \A contents \in ResolvedContents(c, "notFound", i) :
           /\ (contents.t = "string" /\ contents.text # "") =>
                /\ call[c].result.kind = "response"
                /\ call[c].result.status = 404
                /\ call[c].result.ctype = "text/html"
                /\ call[c].result.body.text = contents.text
                /\ call[c].result.body.query = contents.query
           /\ (contents.t = "null" \/ (contents.t = "string" /\ contents.text = "")) =>
                /\ call[c].result = NotFoundPlain
                /\ IsPlain(call[c].result, 404)

\* two calls answered from a 404 route, one of them with the page the route
\* resolved
C16_Witness ==
  \E c \in Calls : \E i \in DOMAIN RoutesOf(call[c].manifest, "notFound") :
    /\ NotFoundDispatched(c, i)
    /\ \E contents \in ResolvedContents(c, "notFound", i) :
         /\ contents.t = "string" /\ contents.text # ""
         /\ call[c].result.body.text = contents.text
    /\ call[c].result.status = 404
    /\ \E d \in Calls : \E k \in DOMAIN RoutesOf(call[d].manifest, "notFound") :
         /\ d # c /\ NotFoundDispatched(d, k)
         /\ call[d].result.status = 404

ConsumerOps == {"getHtml", "routeHandler"}

\* C17: whenever getHtml or an API route handler is invoked with the request,
\* the request has been augmented before, in the same call, with the
\* parameters of the route being served: the parsed-URL facet is attached and
\* the consumer is passed the request as augmentation left it.
C17_AugmentBeforeConsume ==
  \A c \in Calls : \A k \in 1..Len(log[c]) :
    log[c][k].op \in ConsumerOps =>
      /\ log[c][k].request.facet.set
      /\ log[c][k].request.facet.pathname = log[c][k].request.url.pathname
      /\ \E j \in 1..(k - 1) :
           /\ log[c][j].op = "augment"
           /\ log[c][j].cat = log[c][k].cat /\ log[c][j].idx = log[c][k].idx
           /\ log[c][j].request = log[c][k].request
           /\ log[c][k].op = "routeHandler" => log[c][k].params = log[c][j].params

\* an API handler and, in another call, a content resolver were each invoked
\* with the augmented request
C17_Witness ==
  \E c, d \in Calls :
    /\ \E e \in EventsOf(c, {"routeHandler"}) : e.request.facet.set
    /\ \E e \in EventsOf(d, {"getHtml"}) : e.request.facet.set /\ e.cat = "notFound"

\* call c leaves its wait for the supplier in this step
SupplierSettles(c) == call[c].pc = "awaitManifest" /\ call'[c].pc # "awaitManifest"

\* what the supplier yielded to call c in this step
Yielded(c) ==
  CHOOSE e \in {log'[c][k] : k \in 1..Len(log'[c])} : e.op = "supplierSettled"

\* C18: with a supplier configured, the cache is written only by a call whose
\* supplier yields a manifest, and then holds that manifest as a whole; a call
\* whose supplier yields null, or fails, leaves the cache as it was, and so
\* does every other step of every call.
C18_CacheWrittenOnNonNull ==
  [][ hasSupplier =>
        /\ (\A c \in Calls : ~SupplierSettles(c)) => routesManifest' = routesManifest
        /\ \A c \in Calls :
             SupplierSettles(c) =>
               /\ (Yielded(c).err.isError \/ Yielded(c).idx = 0) =>
                    /\ routesManifest' = routesManifest
                    /\ call'[c].pc = "done"
               /\ (~Yielded(c).err.isError /\ Yielded(c).idx = 0) =>
                    call'[c].result = NoManifestResponse
               /\ (~Yielded(c).err.isError /\ Yielded(c).idx # 0) =>
                    /\ routesManifest' = Yielded(c).idx
                    /\ call'[c].manifest = Yielded(c).idx ]_vars

\* a call made after another had installed a manifest was yielded null, and
\* the cache still holds the manifest of the earlier call
C18_Witness ==
  \E c, d \in Calls :
    /\ d < c /\ call[c].obj = call[d].obj
    /\ Supplied(c, 0)
    /\ routesManifest # 0 /\ Supplied(d, routesManifest)

\* the routes of one category that a call with this method and pathname
\* tests against manifest m
TestsExpected(m, method, pathname, cat) ==
  LET h == /\ method \in {"GET", "HEAD"}
           /\ \E i \in DOMAIN RoutesOf(m, "html") : Matches(RoutesOf(m, "html")[i], pathname)
      a == \E i \in DOMAIN RoutesOf(m, "api") : Matches(RoutesOf(m, "api")[i], pathname)
  IN CASE cat = "html" ->
            IF method \in {"GET", "HEAD"}
            THEN 1..TestedUpTo(RoutesOf(m, "html"), pathname) ELSE {}
       [] cat = "api" ->
            IF h THEN {} ELSE 1..TestedUpTo(RoutesOf(m, "api"), pathname)
       [] OTHER ->
            IF h \/ a THEN {} ELSE 1..TestedUpTo(RoutesOf(m, "notFound"), pathname)

Categories == {"html", "api", "notFound"}

\* C19: with a supplier that yields different manifests to different calls,
\* under every interleaving each call tests and dispatches against the
\* manifest that its own supplier call yielded, whatever manifest other calls
\* have put into the cache in the meantime.
C19_OwnManifest ==
  \A c \in Calls : \A m \in SuppliedManifests :
    (hasSupplier /\ Supplied(c, m)) =>
      /\ call[c].manifest = m
      /\ \A cat \in Categories :
           {e.idx : e \in TestsOf(c, cat)} = TestsExpected(m, MethodOf(c), PathOf(c), cat)
      /\ \A e \in EventsOf(c, DispatchOps) :
           /\ e.idx \in DOMAIN RoutesOf(m, e.cat)
           /\ LeastMatch(RoutesOf(m, e.cat), PathOf(c), e.idx)

\* a call is still in flight on the manifest it was yielded while the cache
\* holds another manifest, yielded to another call, under which the request
\* would have been tested differently
C19_Witness ==
  \E c, d \in Calls : \E m \in SuppliedManifests :
    /\ InFlight(c) /\ Supplied(c, m)
    /\ routesManifest \notin {0, m}
    /\ Supplied(d, routesManifest)
    /\ \E cat \in Categories :
         TestsExpected(m, MethodOf(c), PathOf(c), cat) #
           TestsExpected(routesManifest, MethodOf(c), PathOf(c), cat)

\* C20: one call invokes the content resolvers (getHtml and getApiRoute
\* together) at most once, an API route handler at most once, augments the
\* request at most once, and invokes the error hook at most once, and only
\* when the call is answered with the 500 response.
C20_AtMostOnce ==
  \A c \in Calls :
    /\ CountOf(c, "getHtml") + CountOf(c, "getApiRoute") <= 1
    /\ CountOf(c, "routeHandler") <= 1
    /\ CountOf(c, "augment") <= 1
    /\ CountOf(c, "logApiRouteExecutionError") <= 1
    /\ CountOf(c, "logApiRouteExecutionError") > 0 =>
         /\ Done(c)
         /\ call[c].result = ExpoResponse(Body("Internal server error"), 500, "text/plain")

\* a call that resolved, augmented, handled and reported once each and was
\* answered 500, next to a call that resolved and augmented for a static route
C20_Witness ==
  \E c, d \in Calls :
    /\ Done(c) /\ Done(d)
    /\ CountOf(c, "getApiRoute") = 1 /\ CountOf(c, "augment") = 1
    /\ CountOf(c, "routeHandler") = 1 /\ CountOf(c, "logApiRouteExecutionError") = 1
    /\ call[c].result.status = 500
    /\ CountOf(d, "getHtml") = 1 /\ CountOf(d, "augment") = 1

====
